---- MODULE Spec2Model ----
(***************************************************************************)
(* SpeakerUp (src/a.py): the device-enumeration and volume-control facade. *)
(* The object holds one field, devices.  Each operation shells out to      *)
(* PowerShell with subprocess.run(..., check=True) and no timeout; the     *)
(* call is modelled in two steps (issued, returned) so that a call that    *)
(* never returns is a state of the model.                                  *)
(***************************************************************************)
EXTENDS Integers, Sequences, FiniteSets, TLC

VARIABLES
    devices,    \* self.devices
    shown,      \* the list last printed by list_devices (ordinal k = shown[k])
    pc,         \* "idle" | "enum_call" | "vol_call" | "raised"
    call,       \* the operation in progress, or the last one
    osOutcome,  \* what the pending / last subprocess.run does
    osCalls,    \* subprocess.run calls issued by the current / last operation
    osReq,      \* the last PowerShell volume command issued
    ret,        \* return value of the last operation: "none" | "True" | "False"
    exc,        \* exception that left the last operation, "none" if none
    ackName,    \* device_name printed by set_volume on success
    diag,       \* e.stderr printed by set_volume on CalledProcessError
    lastEnum    \* OS outcome of the last get_audio_devices that returned

vars == <<devices, shown, pc, call, osOutcome, osCalls, osReq, ret, exc,
          ackName, diag, lastEnum>>

-----------------------------------------------------------------------------
(* Bounds and inputs *)

\* number of endpoints the OS audio service knows (their Index is 0..NumEndpoints-1)
NumEndpoints == 3

\* if volume < 0 or volume > 100
MinVolume == 0
MaxVolume == 100

\* volumes typed by the user / passed with -v
VolumeInputs == {-1, 0, 7, 50, 100, 101, 150}

\* device_index=None is <<>>, device_index=i is <<i>>
None == <<>>
Some(i) == <<i>>
DeviceIndexInputs == {None} \cup {Some(i) : i \in -1 .. NumEndpoints}

\* ordinals typed in the interactive menu
OrdinalInputs == 0 .. NumEndpoints + 1

EndpointNames == <<"Speakers", "Headset", "HDMI Monitor", "USB Audio", "Line Out">>
EndpointName(i) == EndpointNames[(i % Len(EndpointNames)) + 1]

\* one record of the OS's JSON answer: Select-Object Index, Name, Default
DeviceRecord(i, d) == [Index |-> i, Name |-> EndpointName(i), Default |-> d]

\* the playback endpoints in S, in OS order, the one with Index dflt marked default
SortedSeq(S) ==
    CHOOSE s \in [1 .. Cardinality(S) -> S] :
        \A i, j \in 1 .. Cardinality(S) : i < j => s[i] < s[j]
EndpointList(S, dflt) ==
    [k \in 1 .. Cardinality(S) |-> DeviceRecord(SortedSeq(S)[k], SortedSeq(S)[k] = dflt)]
OsDeviceLists ==
    {EndpointList(S, dflt) : S \in SUBSET (0 .. NumEndpoints - 1),
                             dflt \in -1 .. NumEndpoints - 1}

\* stdout of the enumeration command: a JSON list, a bare JSON object
\* (ConvertTo-Json of exactly one device), or text that is not JSON (empty
\* or malformed)
JsonStdouts ==
    {[json |-> "list", items |-> l] : l \in OsDeviceLists}
    \cup {[json |-> "object", items |-> l] : l \in {m \in OsDeviceLists : Len(m) = 1}}
    \cup {[json |-> "invalid", items |-> <<>>]}
NoStdout == [json |-> "invalid", items |-> <<>>]

\* what subprocess.run(["powershell", ...], check=True) can do:
\*   ok         exit status 0
\*   nonzero    CalledProcessError (check=True)
\*   missing    FileNotFoundError (no powershell executable)
\*   oserror    another OSError from Popen, e.g. PermissionError
\*   hang       the child never exits
Outcome(k, out, err) == [kind |-> k, stdout |-> out, stderr |-> err]
StderrTexts == {"Access is denied."}
FailureOutcomes ==
    {Outcome("nonzero", NoStdout, e) : e \in StderrTexts}
    \cup {Outcome(k, NoStdout, "") : k \in {"missing", "oserror", "hang"}}
EnumOutcomes == {Outcome("ok", s, "") : s \in JsonStdouts} \cup FailureOutcomes
VolOutcomes == {Outcome("ok", NoStdout, "")} \cup FailureOutcomes
NoOutcome == Outcome("none", NoStdout, "")

NoCall == [op |-> "none", volume |-> 0, device_index |-> None, caller |-> "none", ordinal |-> 0]
NoReq == [endpoint |-> None, level |-> [whole |-> 0, frac |-> <<>>]]

-----------------------------------------------------------------------------
(* Pure helpers *)

\* the timeout= argument the code passes to subprocess.run: none
RunTimeout == None

\* f"{volume / 100}": true division, printed as the shortest decimal
\* (50 -> 0.5, 7 -> 0.07, 100 -> 1.0, 0 -> 0.0)
FormatLevelFloor(volume) == [whole |-> volume \div 100, frac |-> <<0>>]
FormatLevel(volume) ==
    [whole |-> volume \div 100,
     frac  |-> IF (volume % 100) % 10 = 0
               THEN << (volume % 100) \div 10 >>
               ELSE << (volume % 100) \div 10, (volume % 100) % 10 >>]

\* the ps_command built by set_volume: -Index {device_index} or the default
\* endpoint, and [audio]::Volume = {volume / 100}
PsVolumeCommand(volume, device_index) ==
    [endpoint |-> device_index, level |-> FormatLevel(volume)]

\* json.loads(result.stdout) followed by the isinstance(list) wrap
json_loads_ok(stdout) == stdout.json \in {"list", "object"}
NormalizeDevicesData(stdout) ==
    IF stdout.json = "list" THEN stdout.items ELSE << stdout.items[1] >>

\* self.devices = [{"Index": 0, "Name": "Default Audio Device", "Default": True}]
get_devices_fallback ==
    << [Index |-> 0, Name |-> "Default Audio Device", Default |-> TRUE] >>

\* Python list indexing s[i]: negative i counts from the end
PyInRange(s, i) == -Len(s) <= i /\ i < Len(s)
PyIndex(s, i) == IF i >= 0 THEN s[i + 1] ELSE s[Len(s) + i + 1]

-----------------------------------------------------------------------------
Init ==
    /\ devices = <<>>
    /\ shown = <<>>
    /\ pc = "idle"
    /\ call = NoCall
    /\ osOutcome = NoOutcome
    /\ osCalls = 0
    /\ osReq = NoReq
    /\ ret = "none"
    /\ exc = "none"
    /\ ackName = ""
    /\ diag = ""
    /\ lastEnum = NoOutcome

-----------------------------------------------------------------------------
(* set_volume *)

\* if volume < 0 or volume > 100: ... return False
VolumeRejectedLoose(volume) == volume < MinVolume \/ volume > MaxVolume + 1
VolumeRejected(volume) == volume < MinVolume \/ volume > MaxVolume

\* lines 79-142: the range check, then the command is built and run
set_volume(volume, device_index, caller, ordinal) ==
    /\ call' = [op |-> "set_volume", volume |-> volume, device_index |-> device_index,
                caller |-> caller, ordinal |-> ordinal]
    /\ exc' = "none"
    /\ ackName' = ""
    /\ diag' = ""
    /\ IF VolumeRejected(volume)
       THEN /\ osCalls' = 0
            /\ osReq' = NoReq
            /\ osOutcome' = NoOutcome
            /\ ret' = "False"
            /\ pc' = "idle"
       ELSE /\ osCalls' = 1
            /\ osReq' = PsVolumeCommand(volume, device_index)
            /\ \E o \in VolOutcomes : osOutcome' = o
            /\ ret' = "none"
            /\ pc' = "vol_call"
    /\ UNCHANGED <<devices, shown, lastEnum>>

\* set_volume called with the caller's arguments as they are: main's
\* "-v LEVEL [-d INDEX]" path (device_idx = args.device - 1, no enumeration
\* before it), menu option 1 (no device), or any client of the class
call_set_volume ==
    /\ pc = "idle"
    /\ \E volume \in VolumeInputs, device_index \in DeviceIndexInputs :
          set_volume(volume, device_index, "direct", 0)

\* menu option 2 (and option 3, and -c): ordinal k, device_idx = k - 1,
\* guarded by 0 <= device_idx < len(self.devices)
menu_choose_device ==
    /\ pc = "idle"
    /\ \E k \in OrdinalInputs, volume \in VolumeInputs :
          IF 0 <= k - 1 /\ k - 1 < Len(devices)
          THEN set_volume(volume, Some(k - 1), "menu", k)
          ELSE /\ call' = [op |-> "invalid_selection", volume |-> volume,
                           device_index |-> Some(k - 1), caller |-> "menu", ordinal |-> k]
               /\ osCalls' = 0
               /\ osReq' = NoReq
               /\ osOutcome' = NoOutcome
               /\ ret' = "none"
               /\ exc' = "none"
               /\ ackName' = ""
               /\ diag' = ""
               /\ UNCHANGED <<devices, shown, pc, lastEnum>>

\* lines 144-146: device_name = "Default Device"; if device_index is not None
\* and device_index < len(self.devices): device_name = self.devices[device_index]["Name"]
NameLookupTaken(devs, device_index) ==
    device_index # None /\ device_index[1] < Len(devs)
NameLookupRaises(devs, device_index) ==
    NameLookupTaken(devs, device_index) /\ ~PyInRange(devs, device_index[1])
DeviceName(devs, device_index) ==
    IF NameLookupTaken(devs, device_index)
    THEN PyIndex(devs, device_index[1]).Name
    ELSE "Default Device"

\* lines 137-153: subprocess.run returns or raises
set_volume_return ==
    /\ pc = "vol_call"
    /\ osOutcome.kind # "hang" \/ RunTimeout # None
    /\ CASE osOutcome.kind = "ok" ->
              IF NameLookupRaises(devices, call.device_index)
              THEN /\ exc' = "IndexError"
                   /\ pc' = "raised"
                   /\ UNCHANGED <<ret, ackName, diag>>
              ELSE /\ ackName' = DeviceName(devices, call.device_index)
                   /\ ret' = "True"
                   /\ pc' = "idle"
                   /\ UNCHANGED <<exc, diag>>
         [] osOutcome.kind = "nonzero" ->
              /\ diag' = osOutcome.stderr
              /\ ret' = "False"
              /\ pc' = "idle"
              /\ UNCHANGED <<exc, ackName>>
         [] OTHER ->
              \* not a CalledProcessError: nothing in set_volume catches it
              /\ exc' = CASE osOutcome.kind = "missing" -> "FileNotFoundError"
                          [] osOutcome.kind = "oserror" -> "PermissionError"
                          [] OTHER -> "TimeoutExpired"
              /\ pc' = "raised"
              /\ UNCHANGED <<ret, ackName, diag>>
    /\ UNCHANGED <<devices, shown, call, osOutcome, osCalls, osReq, lastEnum>>

-----------------------------------------------------------------------------
(* get_audio_devices, _get_devices_fallback, list_devices *)

\* lines 28-33: the enumeration command is run
get_audio_devices(caller) ==
    /\ call' = [op |-> "get_audio_devices", volume |-> 0, device_index |-> None,
                caller |-> caller, ordinal |-> 0]
    /\ osCalls' = 1
    /\ \E o \in EnumOutcomes : osOutcome' = o
    /\ ret' = "none"
    /\ exc' = "none"
    /\ ackName' = ""
    /\ diag' = ""
    /\ pc' = "enum_call"

\* except (subprocess.CalledProcessError, json.JSONDecodeError, FileNotFoundError)
CaughtByEnum(o) ==
    \/ o.kind = "nonzero"
    \/ o.kind = "missing"
    \/ o.kind = "ok" /\ ~json_loads_ok(o.stdout)

\* lines 35-44 and 46-57: the new value of self.devices when the call returns
EnumeratedMerging(old, o) ==
    IF CaughtByEnum(o) THEN get_devices_fallback ELSE old \o NormalizeDevicesData(o.stdout)
EnumeratedNoWrap(old, o) ==
    IF CaughtByEnum(o) \/ o.stdout.json = "object" THEN get_devices_fallback
    ELSE NormalizeDevicesData(o.stdout)
Enumerated(old, o) ==
    IF CaughtByEnum(o) THEN get_devices_fallback ELSE NormalizeDevicesData(o.stdout)

\* option 4 of the menu: self.get_audio_devices(); self.list_devices()
menu_refresh ==
    /\ pc = "idle"
    /\ get_audio_devices("refresh")
    /\ UNCHANGED <<devices, shown, osReq, lastEnum>>

\* list_devices, lines 63-77: enumerates only when self.devices is empty
list_devices ==
    /\ pc = "idle"
    /\ IF devices = <<>>
       THEN /\ get_audio_devices("list_devices")
            /\ UNCHANGED <<devices, shown, osReq, lastEnum>>
       ELSE /\ shown' = devices
            /\ call' = [op |-> "list_devices", volume |-> 0, device_index |-> None,
                        caller |-> "direct", ordinal |-> 0]
            /\ ret' = "True"
            /\ exc' = "none"
            /\ osCalls' = 0
            /\ osOutcome' = NoOutcome
            /\ ackName' = ""
            /\ diag' = ""
            /\ UNCHANGED <<devices, pc, osReq, lastEnum>>

\* subprocess.run of the enumeration returns or raises (lines 35-44); then the
\* caller goes on: after a refresh list_devices runs, and enumerates once more
\* when the new list is empty
get_audio_devices_return ==
    /\ pc = "enum_call"
    /\ osOutcome.kind # "hang" \/ RunTimeout # None
    /\ IF osOutcome.kind \in {"oserror", "hang"}
       THEN \* neither is in the except clause: the exception leaves the facade
            /\ exc' = IF osOutcome.kind = "oserror" THEN "PermissionError" ELSE "TimeoutExpired"
            /\ pc' = "raised"
            /\ UNCHANGED <<devices, shown, call, osOutcome, osCalls, ret, lastEnum>>
       ELSE /\ devices' = Enumerated(devices, osOutcome)
            /\ lastEnum' = osOutcome
            /\ exc' = "none"
            /\ IF call.caller = "refresh" /\ devices' = <<>>
               THEN /\ call' = [call EXCEPT !.caller = "list_devices"]
                    /\ \E o \in EnumOutcomes : osOutcome' = o
                    /\ osCalls' = 1
                    /\ ret' = "none"
                    /\ pc' = "enum_call"
                    /\ UNCHANGED shown
               ELSE /\ shown' = devices'
                    /\ ret' = "True"
                    /\ pc' = "idle"
                    /\ UNCHANGED <<call, osOutcome, osCalls>>
    /\ UNCHANGED <<osReq, ackName, diag>>

-----------------------------------------------------------------------------
Next ==
    \/ call_set_volume
    \/ menu_choose_device
    \/ set_volume_return
    \/ menu_refresh
    \/ list_devices
    \/ get_audio_devices_return

Spec == Init /\ [][Next]_vars

\* a pending subprocess.run returns as soon as the child exits
FairSpec == Spec /\ WF_vars(set_volume_return) /\ WF_vars(get_audio_devices_return)

-----------------------------------------------------------------------------
(* Properties *)

IndexInList(device_index) ==
    device_index # None /\ 0 <= device_index[1] /\ device_index[1] < Len(devices)
VolumeInRange(volume) == 0 <= volume /\ volume <= 100
SetVolumeDone == call.op = "set_volume" /\ pc # "vol_call"

\* the name the acknowledgment is expected to carry: the record at the index,
\* the snapshot's default device for no target, else the generic label
SnapshotDefaults == {k \in 1 .. Len(devices) : devices[k].Default}
ExpectedAckName ==
    IF IndexInList(call.device_index)
    THEN devices[call.device_index[1] + 1].Name
    ELSE IF call.device_index = None /\ lastEnum.kind # "none" /\ SnapshotDefaults # {}
         THEN devices[CHOOSE k \in SnapshotDefaults : TRUE].Name
         ELSE "Default Device"

\* the level a printed decimal (whole.frac) stands for, in hundredths
LevelHundredths(level) ==
    level.whole * 100
      + (IF Len(level.frac) = 1 THEN level.frac[1] * 10
         ELSE level.frac[1] * 10 + level.frac[2])

\* C1: set_volume(p, i) with 0 <= p <= 100 and i not a position of the last
\* enumerated list (none enumerated: every i) returns False and issues no OS call.
C1_IndexOutsideListRejected ==
    (/\ call.op = "set_volume"
     /\ VolumeInRange(call.volume)
     /\ call.device_index # None
     /\ ~IndexInList(call.device_index))
    => (osCalls = 0 /\ pc = "idle" /\ ret = "False")

\* C2: set_volume with a percent below 0 or above 100, for any target, returns
\* False at once, issues no OS call and leaves self.devices as it was.
C2_OutOfRangeRejected ==
    [][(/\ pc = "idle"
        /\ call'.op = "set_volume"
        /\ ~VolumeInRange(call'.volume))
       => (/\ pc' = "idle"
           /\ ret' = "False"
           /\ exc' = "none"
           /\ osCalls' = 0
           /\ osReq' = NoReq
           /\ devices' = devices)]_vars

C2_Witness ==
    /\ call.op = "set_volume"
    /\ call.volume = 150
    /\ call.device_index = Some(1)
    /\ ret = "False"
    /\ Len(devices) = 2

\* C3: whatever makes the primary enumeration fail (non-zero exit, missing
\* executable, malformed or empty output, any other error of the external
\* call), get_audio_devices returns True, raises nothing, and leaves exactly
\* the one fallback entry (Index 0, Default true) in the list.
C3_FallbackOnAnyFailure ==
    (/\ call.op = "get_audio_devices"
     /\ pc # "enum_call"
     /\ \/ osOutcome.kind \in {"nonzero", "missing", "oserror"}
        \/ osOutcome.kind = "ok" /\ osOutcome.stdout.json = "invalid")
    => (/\ pc = "idle"
        /\ exc = "none"
        /\ ret = "True"
        /\ Len(devices) = 1
        /\ devices[1].Index = 0
        /\ devices[1].Default = TRUE)

\* C4: when the OS call of set_volume fails (non-zero exit, or an exception of
\* the interop layer such as a missing PowerShell), set_volume returns False
\* with the OS diagnostic, raises nothing, and has issued exactly one OS call.
C4_OsFailureIsReturned ==
    (SetVolumeDone /\ osOutcome.kind \in {"nonzero", "missing", "oserror"})
    => (/\ pc = "idle"
        /\ exc = "none"
        /\ ret = "False"
        /\ diag = osOutcome.stderr
        /\ osCalls = 1)

\* C5: when the OS call of set_volume succeeds, the acknowledgment names: for
\* an index inside the last snapshot, that record's Name; for no target, the
\* snapshot's default device if a snapshot exists, else "Default Device"; and
\* "Default Device" whenever the index resolves to no name.
C5_AckName ==
    (SetVolumeDone /\ osOutcome.kind = "ok")
    => (pc = "idle" /\ ret = "True" /\ ackName = ExpectedAckName)

\* C6: after a primary enumeration that succeeded, the list is the records the
\* OS returned, in the OS's order, names and default flags kept; a bare record
\* gives a one-element list holding it and is no failure.
C6_ListIsOsAnswer ==
    (lastEnum.kind = "ok" /\ lastEnum.stdout.json \in {"list", "object"})
    => (/\ Len(devices) = Len(lastEnum.stdout.items)
        /\ \A k \in 1 .. Len(devices) :
              /\ devices[k].Index = lastEnum.stdout.items[k].Index
              /\ devices[k].Name = lastEnum.stdout.items[k].Name
              /\ devices[k].Default = lastEnum.stdout.items[k].Default
        /\ lastEnum.stdout.json = "object" => Len(devices) = 1)

C6_Witness ==
    /\ call.op = "get_audio_devices"
    /\ pc = "idle"
    /\ ret = "True"
    /\ lastEnum.kind = "ok"
    /\ lastEnum.stdout.json = "object"
    /\ devices = << [Index |-> 1, Name |-> "Headset", Default |-> TRUE] >>

\* C7: the enumeration call is bounded by a timeout: even if the OS query
\* never returns, get_audio_devices eventually completes.
C7_EnumerationCompletes == (pc = "enum_call") ~> (pc # "enum_call")

\* C8: the cached list is exactly the outcome of the last get_audio_devices
\* that returned (the OS's records, or the fallback entry), with nothing of
\* earlier enumerations in it; set_volume never changes it.
C8_ListIsLastEnumeration ==
    /\ lastEnum.kind = "none" => devices = <<>>
    /\ (lastEnum.kind = "ok" /\ lastEnum.stdout.json # "invalid")
          => devices = lastEnum.stdout.items
    /\ (lastEnum.kind \in {"nonzero", "missing"}
        \/ (lastEnum.kind = "ok" /\ lastEnum.stdout.json = "invalid"))
          => devices = << [Index |-> 0, Name |-> "Default Audio Device", Default |-> TRUE] >>

C8_Witness ==
    /\ SetVolumeDone
    /\ ret = "True"
    /\ call.device_index = Some(0)
    /\ lastEnum.kind = "ok"
    /\ lastEnum.stdout.json = "list"
    /\ Len(devices) = 2
    /\ devices[1].Index = 1

\* C9: set_volume(p, target) with 0 <= p <= 100 and a target that resolves
\* (none, or an index inside the last list) is not rejected on range grounds
\* and issues exactly one OS call, asking for the level p/100.
C9_InRangeIssuesOneCall ==
    (/\ call.op = "set_volume"
     /\ VolumeInRange(call.volume)
     /\ call.device_index = None \/ IndexInList(call.device_index))
    => (/\ osCalls = 1
        /\ osOutcome.kind # "none"
        /\ osReq.endpoint = call.device_index
        /\ Len(osReq.level.frac) \in {1, 2}
        /\ LevelHundredths(osReq.level) = call.volume)

C9_Witness ==
    /\ SetVolumeDone
    /\ call.volume = 7
    /\ call.device_index = Some(1)
    /\ Len(devices) = 2
    /\ ret = "True"
    /\ osReq.level = [whole |-> 0, frac |-> <<0, 7>>]

\* C10: in menu options 2 and 3, choosing ordinal k (1 <= k <= number of
\* devices listed) sends to the OS the Index field of the record shown at
\* ordinal k, for every list the OS can return.
C10_MenuAddressesShownDevice ==
    (/\ call.op = "set_volume"
     /\ call.caller = "menu"
     /\ osCalls = 1)
    => (/\ call.ordinal \in 1 .. Len(shown)
        /\ osReq.endpoint = Some(shown[call.ordinal].Index))

====
